---- MODULE Spec2Model ----
(***************************************************************************)
(* A model of portfolio_optimization: Pareto dominance of fitness vectors  *)
(* and the walk_forward generator (utils/tools.py), the Population         *)
(* container, the Assets price table, its preprocessing and its windows    *)
(* of dates (assets.py),                                                   *)
(* MultiPeriodPortfolio and its metrics cache, the mean-CVaR program and   *)
(* its frontier sweep (optimization/cvar.py), Optimization.update and      *)
(* pre_selection.                                                          *)
(*                                                                         *)
(* Numbers are integers standing for the reals of the program; a fitness   *)
(* vector is a sequence of objectives, all "higher is better".             *)
(***************************************************************************)
EXTENDS Integers, Sequences, FiniteSets, TLC

VARIABLES
  \* ---- dominance calls (utils/tools.py) ----
  fitness_1,      \* first argument of the dominance call
  fitness_2,      \* second argument of the dominance call
  domResult,      \* dominate(fitness_1, fitness_2): "unset", "True", "False"
  domSwapped,     \* dominate(fitness_2, fitness_1): "unset", "True", "False"
  slowResult      \* dominate_slow(fitness_1, fitness_2): also "ValueError"

domVars == <<fitness_1, fitness_2, domResult, domSwapped, slowResult>>

VARIABLES
  \* ---- Population ----
  population,     \* the portfolios held: records [name, fitness]
  autoNames,      \* how many names were generated for unnamed portfolios
  lastOp,         \* the last Population operation: "new", "add", "pareto_front"
  addArg,         \* the portfolio passed to the last add
  addOutcome,     \* "none", "ok" or "DuplicateName"
  front           \* what the last pareto_front() returned

popVars == <<population, autoNames, lastOp, addArg, addOutcome, front>>

VARIABLES
  \* ---- Assets (assets.py) ----
  in_prices,      \* the prices DataFrame passed to Assets(...)
  assets_args,    \* the other arguments of the constructor call
  assets_outcome, \* "none" before the call, "ok", or the error raised
  self_prices,    \* self.prices of the constructed object
  self_returns    \* self._returns: None until returns is first read

assetsVars == <<in_prices, assets_args, assets_outcome, self_prices, self_returns>>

VARIABLES
  \* ---- MultiPeriodPortfolio ----
  portfolios,     \* the portfolios added, in the order they were added
  mpp_outcome,    \* of the last add: "none", "ok" or "NonContiguousPeriods"
  mean_slot,      \* self._mean
  std_slot        \* self._std

mppVars == <<portfolios, mpp_outcome, mean_slot, std_slot>>

VARIABLES
  \* ---- mean_cvar (optimization/cvar.py) ----
  cvar_args,        \* the arguments of the call
  cvar_constraints, \* the constraints of the problem built
  cvar_status,      \* the solver status of each grid point solved so far
  cvar_weights,     \* weights: the target and w.value of the points solved
  cvar_outcome      \* "none", "sweeping", "returned", "OptimizationFailed"

sweepVars == <<cvar_args, cvar_constraints, cvar_status, cvar_weights,
               cvar_outcome>>

VARIABLES
  \* ---- Optimization: update and the optimization calls ----
  opt_state,        \* self.costs, self.prev_w, self.investment_duration_in_days
  opt_update,       \* the arguments of the last update call
  opt_weights,      \* the weight vectors returned so far, in call order
  opt_applied       \* the cost state the last optimization call has read

optVars == <<opt_state, opt_update, opt_weights, opt_applied>>

VARIABLES
  \* ---- pre_selection ----
  presel_args,      \* the universe (its size and correlations), k and the rule
  presel_remaining, \* the names of the assets that remain
  presel_outcome    \* "none", "selecting", "returned", "InvalidParameter"

preselVars == <<presel_args, presel_remaining, presel_outcome>>

VARIABLES
  \* ---- walk_forward (utils/tools.py) ----
  wf_args,          \* the arguments of the call
  wf_train_start,   \* train_start, the local variable of the generator
  wf_yielded,       \* the periods yielded so far, in order
  wf_state          \* "none", "running", "suspended" (at yield), "returned"

wfVars == <<wf_args, wf_train_start, wf_yielded, wf_state>>

VARIABLES
  \* ---- Assets objects built on windows of one price table (assets.py) ----
  tile_prices,      \* the prices DataFrame every window is cut from
  tile_bounds,      \* the dates <<a, b, c>> that bound the windows
  tile_objects      \* window -> the Assets object built on it, if any

tileVars == <<tile_prices, tile_bounds, tile_objects>>

lateVars == <<sweepVars, optVars, preselVars, wfVars, tileVars>>

vars == <<domVars, popVars, assetsVars, mppVars, lateVars>>

\* ------------------------------------------------------------------------
\* Bounds of the model
\* ------------------------------------------------------------------------
\* objectives take the values 0..MaxObjective
MaxObjective == 2
\* objectives of the portfolios of a population take the values 0..MaxPopObjective
MaxPopObjective == 1
\* the explicit portfolio names are 1..MaxNames
MaxNames == 2
\* a population holds at most MaxPopulation portfolios
MaxPopulation == 3
\* a price table has MaxDates dates and MaxAssets assets, of which at most
\* MaxMissing prices are missing
MaxDates == 3
MaxAssets == 3
MaxMissing == 3
\* thresholds are the fractions k / ThresholdDen, k in 0..ThresholdDen
ThresholdDen == 3
\* the dates of the sub-periods are 0..MaxDay, a weight is in 0..MaxWeight,
\* and a multi-period portfolio holds at most MaxPeriods portfolios
MaxDay == 3
MaxWeight == 1
MaxPeriods == 2
\* a frontier sweep has at most MaxPopulationSize points
MaxPopulationSize == 3
\* at most MaxCalls optimizations are run on one optimizer
MaxCalls == 2
\* a universe given to pre_selection has 2..MaxUniverse assets
MaxUniverse == 4
\* walk_forward: dates are 0..MaxEndDate, train_duration is 0..MaxTrain and
\* test_duration 0..MaxTest days
MaxEndDate == 6
MaxTrain == 2
MaxTest == 3

\* The three fitness configurations have 2, 2 and 3 objectives:
\* {mean, -std}, {mean, -downside_std}, {mean, -downside_std, -max_drawdown}.
FitnessLengths == {2, 3}

Objectives == 0..MaxObjective

FitnessVectors == UNION {[1..n -> Objectives] : n \in FitnessLengths}

Min(a, b) == IF a < b THEN a ELSE b

BoolStr(b) == IF b THEN "True" ELSE "False"

\* ------------------------------------------------------------------------
\* utils/tools.py: dominate, dominate_slow
\* ------------------------------------------------------------------------
\* The body of dominate's for loop over zip(fitness_1, fitness_2): zip stops at
\* the end of the shorter argument; i is the position reached and not_equal
\* the flag so far.
RECURSIVE dominate_loop(_, _, _, _)
dominate_loop(f1, f2, i, not_equal) ==
  IF i > Min(Len(f1), Len(f2)) THEN not_equal
  ELSE IF f1[i] > f2[i] THEN dominate_loop(f1, f2, i + 1, TRUE)
  ELSE IF f1[i] < f2[i] THEN FALSE
  ELSE dominate_loop(f1, f2, i + 1, not_equal)

\* A plausible slip: returning as soon as one objective is strictly better.
dominate_early_return(f1, f2) ==
  \E i \in 1..Min(Len(f1), Len(f2)) :
     /\ f1[i] > f2[i]
     /\ \A j \in 1..(i - 1) : f1[j] = f2[j]

\* A plausible slip: the "elif self_value < other_value: return False" branch
\* is lost, so one better objective is enough.
dominate_no_worse_check(f1, f2) ==
  \E i \in 1..Min(Len(f1), Len(f2)) : f1[i] > f2[i]

dominate(f1, f2) == dominate_loop(f1, f2, 1, FALSE)

\* np.all(fitness_1 >= fitness_2) and np.any(fitness_1 > fitness_2): the
\* elementwise comparison of two arrays of lengths 2 and 3 cannot be
\* broadcast and raises ValueError.
dominate_slow(f1, f2) ==
  IF Len(f1) # Len(f2) THEN "ValueError"
  ELSE BoolStr(/\ \A i \in 1..Len(f1) : f1[i] >= f2[i]
               /\ \E i \in 1..Len(f1) : f1[i] > f2[i])

\* ------------------------------------------------------------------------
\* Population and Portfolio naming
\* ------------------------------------------------------------------------
NoPortfolio == [name |-> <<"none", 0>>, fitness |-> <<>>]

\* Portfolio(weights, assets, name=...): a portfolio built with a name keeps
\* it; one built without a name gets a generated one, different from every
\* name generated before (the tests add 30 unnamed portfolios to one
\* population). auto is the number of names generated so far.
Portfolio(name, fitness, auto) ==
  [name |-> IF name = 0 THEN <<"generated", auto + 1>> ELSE <<"name", name>>,
   fitness |-> fitness]

\* A plausible slip: add stores the portfolio without looking at its name.
add_unchecked(pop, portfolio) ==
  [population |-> pop \cup {portfolio}, outcome |-> "ok"]

\* Population.add(portfolio): DuplicateName when a portfolio of that name is
\* held, and then the population is left as it was.
add(pop, portfolio) ==
  IF \E p \in pop : p.name = portfolio.name
  THEN [population |-> pop, outcome |-> "DuplicateName"]
  ELSE [population |-> pop \cup {portfolio}, outcome |-> "ok"]

\* Population.pareto_front(): the portfolios no other member dominates.
pareto_front(pop) ==
  {p \in pop : ~ \E q \in pop \ {p} : dominate(q.fitness, p.fitness)}

PopIdle ==
  /\ population = {}
  /\ autoNames = 0
  /\ lastOp = "new"
  /\ addArg = NoPortfolio
  /\ addOutcome = "none"
  /\ front = {}

\* ------------------------------------------------------------------------
\* assets.py: the price table and Assets.__init__
\* ------------------------------------------------------------------------
\* A DataFrame of prices is [dates, names, val]: the index (dates, in
\* increasing order), the columns (asset names) and the price of every
\* (date, name); a missing price (nan) is NaN, a price is a positive number.
NaN == 0

\* Optional[dt.date] = None, names_to_keep = None, random_selection = None
NoDate == 0
NoNames == <<0>>
NoSelection == -1

Range(s) == {s[i] : i \in DOMAIN s}

DataFrame(dates, names, val) ==
  [dates |-> dates, names |-> names,
   val |-> [c \in Range(dates) \X Range(names) |-> val[c]]]

EmptyFrame == DataFrame(<<>>, <<>>, <<>>)

\* a threshold k / ThresholdDen is the pair <<k, ThresholdDen>>
Thresholds == {<<k, ThresholdDen>> : k \in 0..ThresholdDen}

\* 0 < threshold < 1
in_open_unit_interval(t) == 0 < t[1] /\ t[1] < t[2]

\* A plausible slip: the end of the interval is left out, as in a slice of
\* positions.
loc_end_excluded(df, start_date, end_date) ==
  DataFrame(SelectSeq(df.dates,
                      LAMBDA d : /\ (start_date = NoDate \/ d >= start_date)
                                 /\ (end_date = NoDate \/ d < end_date)),
            df.names, df.val)

\* prices.loc[start_date:end_date]: the rows whose date is in the closed
\* interval; a bound that is None is open.
loc(df, start_date, end_date) ==
  DataFrame(SelectSeq(df.dates,
                      LAMBDA d : /\ (start_date = NoDate \/ d >= start_date)
                                 /\ (end_date = NoDate \/ d <= end_date)),
            df.names, df.val)

\* self.prices[names]: the columns named, in the order given
columns(df, names) == DataFrame(df.dates, names, df.val)

\* self.prices.empty: no row or no column
empty(df) == Len(df.dates) = 0 \/ Len(df.names) = 0

\* self.prices.isna().sum(axis=0)[name], .sum(axis=1)[date]
count_nan_asset(df, a) == Cardinality({d \in Range(df.dates) : df.val[d, a] = NaN})
count_nan_date(df, d) == Cardinality({a \in Range(df.names) : df.val[d, a] = NaN})

\* Remove assets with missing prices above threshold (n dates in the table):
\* count_nan > n * dates_missing_threshold
drop_assets(df, n, threshold) ==
  DataFrame(df.dates,
            SelectSeq(df.names,
                      LAMBDA a : ~(count_nan_asset(df, a) * threshold[2]
                                     > n * threshold[1])),
            df.val)

\* Remove dates with missing prices above threshold (m assets in the table
\* before the assets were removed): count_nan > m * asset_missing_threshold
drop_dates(df, m, threshold) ==
  DataFrame(SelectSeq(df.dates,
                      LAMBDA d : ~(count_nan_date(df, d) * threshold[2]
                                     > m * threshold[1])),
            df.names, df.val)

\* the last price at or before row i of column a, NaN if there is none
RECURSIVE last_valid(_, _, _)
last_valid(df, i, a) ==
  IF i = 0 THEN NaN
  ELSE IF df.val[df.dates[i], a] # NaN THEN df.val[df.dates[i], a]
  ELSE last_valid(df, i - 1, a)

\* the first price at or after row i of column a, NaN if there is none
RECURSIVE next_valid(_, _, _)
next_valid(df, i, a) ==
  IF i > Len(df.dates) THEN NaN
  ELSE IF df.val[df.dates[i], a] # NaN THEN df.val[df.dates[i], a]
  ELSE next_valid(df, i + 1, a)

Row(df, d) == CHOOSE i \in DOMAIN df.dates : df.dates[i] = d

\* fillna(method='ffill'), fillna(method='bfill')
ffill(df) ==
  [df EXCEPT !.val = [c \in DOMAIN df.val |-> last_valid(df, Row(df, c[1]), c[2])]]
bfill(df) ==
  [df EXCEPT !.val = [c \in DOMAIN df.val |-> next_valid(df, Row(df, c[1]), c[2])]]

\* the two fills that end _preprocessing
preprocessing_fill(df) == bfill(ffill(df))

\* A plausible slip: the bounds of the interval are accepted.
threshold_ok_closed(t) == 0 <= t[1] /\ t[1] <= t[2]

\* the test of each threshold in _preprocessing
threshold_ok(t) == in_open_unit_interval(t)

\* Assets._preprocessing: [outcome, prices]
preprocessing(df, asset_missing_threshold, dates_missing_threshold) ==
  IF ~threshold_ok(asset_missing_threshold)
  THEN [outcome |-> "ValueError: asset_missing_threshold", prices |-> df]
  ELSE IF ~threshold_ok(dates_missing_threshold)
  THEN [outcome |-> "ValueError: dates_missing_threshold", prices |-> df]
  ELSE LET n == Len(df.dates)
           m == Len(df.names)
           kept_assets == drop_assets(df, n, dates_missing_threshold)
           kept_dates == drop_dates(kept_assets, m, asset_missing_threshold)
       IN [outcome |-> "ok", prices |-> preprocessing_fill(kept_dates)]

\* Assets.__init__(prices, start_date, end_date, preprocessing,
\* asset_missing_threshold, dates_missing_threshold, names_to_keep,
\* random_selection): [outcome, prices]. choice is what np.random.choice
\* returns when random_selection is given: positions of columns.
Assets(prices, args, choice) ==
  LET sliced == loc(prices, args.start_date, args.end_date)
      named == IF args.names_to_keep = NoNames THEN sliced
               ELSE columns(sliced, args.names_to_keep)
      picked == IF args.random_selection = NoSelection THEN named
                ELSE columns(named, [i \in DOMAIN choice |-> named.names[choice[i]]])
  IN IF /\ args.names_to_keep # NoNames
        /\ ~(Range(args.names_to_keep) \subseteq Range(sliced.names))
     THEN [outcome |-> "KeyError", prices |-> EmptyFrame]
     ELSE IF /\ args.random_selection # NoSelection
             /\ args.random_selection > Len(named.names)
     THEN [outcome |-> "ValueError: random_selection", prices |-> EmptyFrame]
     ELSE IF empty(picked)
     THEN [outcome |-> "ValueError: prices cannot be empty", prices |-> picked]
     ELSE IF args.preprocessing
     THEN preprocessing(picked, args.asset_missing_threshold,
                        args.dates_missing_threshold)
     ELSE [outcome |-> "ok", prices |-> picked]

\* One return: NaN, or the fraction <<S1 - S0, S0>> (R1 = S1/S0 - 1)
NaNReturn == <<0, 0>>

\* prices.pct_change()[1:].to_numpy().T: one row per asset, one return per
\* date but the first; pct_change pads a missing price with the last one
\* before it.
pct_change(df) ==
  [k \in 1..Len(df.names) |->
     [i \in 1..(Len(df.dates) - 1) |->
        LET S1 == last_valid(df, i + 1, df.names[k])
            S0 == last_valid(df, i, df.names[k])
        IN IF S0 = NaN \/ S1 = NaN THEN NaNReturn ELSE <<S1 - S0, S0>>]]

NoReturns == [cached |-> FALSE, value |-> <<>>]

\* Assets.date_nb: self.returns.shape[1], the length of a row of returns
date_nb(returns) == Len(returns[1])

NoArgs ==
  [start_date |-> NoDate, end_date |-> NoDate, preprocessing |-> TRUE,
   asset_missing_threshold |-> <<0, 1>>, dates_missing_threshold |-> <<0, 1>>,
   names_to_keep |-> NoNames, random_selection |-> NoSelection]

AssetsIdle ==
  /\ in_prices = EmptyFrame
  /\ assets_args = NoArgs
  /\ assets_outcome = "none"
  /\ self_prices = EmptyFrame
  /\ self_returns = NoReturns

\* ------------------------------------------------------------------------
\* Portfolio and MultiPeriodPortfolio
\* ------------------------------------------------------------------------
\* The assets of the universe, by position
MppAssets == <<"asset_0", "asset_1">>

\* The return of asset i on date t, taken from one price history whatever
\* the period (the test builds every period's Assets from the same prices).
AssetReturn(i, t) == i * t - 2

\* assets.returns of Assets(prices, start_date, end_date): one row per asset,
\* one return per date of the period but the first
asset_returns(start_date, end_date) ==
  [i \in 1..Len(MppAssets) |->
     [k \in 1..(end_date - start_date) |-> AssetReturn(i, start_date + k)]]

\* the for loop of portfolio_returns: returns += asset_returns[i] * weights[i]
RECURSIVE portfolio_returns_loop(_, _, _, _)
portfolio_returns_loop(asset_rets, weights, i, returns) ==
  IF i > Len(asset_rets) THEN returns
  ELSE portfolio_returns_loop(
         asset_rets, weights, i + 1,
         [k \in DOMAIN returns |-> returns[k] + asset_rets[i][k] * weights[i]])

\* A plausible slip: "returns = ..." for "returns += ...", so that only the
\* last asset counts.
portfolio_returns_last_asset(asset_rets, weights) ==
  LET n == Len(asset_rets)
  IN [k \in 1..Len(asset_rets[1]) |-> asset_rets[n][k] * weights[n]]

\* utils/tools.py portfolio_returns(asset_returns, weights)
portfolio_returns(asset_rets, weights) ==
  portfolio_returns_loop(asset_rets, weights, 1,
                         [k \in 1..Len(asset_rets[1]) |-> 0])

\* Portfolio(weights=weights, assets=Assets(prices, start_date, end_date)):
\* its period, its weights and its per-date returns
PeriodPortfolio(start_date, end_date, weights) ==
  [start_date |-> start_date, end_date |-> end_date, weights |-> weights,
   returns |-> portfolio_returns(asset_returns(start_date, end_date), weights)]

\* two periods overlap when they share more than a boundary date
Overlap(p, q) == p.start_date < q.end_date /\ q.start_date < p.end_date

\* A plausible slip: no test of the period of the portfolio added.
mpp_add_unchecked(held, portfolio) ==
  [portfolios |-> Append(held, portfolio), outcome |-> "ok"]

\* MultiPeriodPortfolio.add(portfolio): the portfolio is appended, unless its
\* period overlaps a period already added or starts before one; a period may
\* start on the date the one before it ends (the test adds 2017-03-15 to
\* 2017-05-01, then 2017-05-01 to 2017-08-01).
mpp_add(held, portfolio) ==
  IF \E j \in DOMAIN held :
        \/ Overlap(held[j], portfolio)
        \/ portfolio.start_date < held[j].start_date
  THEN [portfolios |-> held, outcome |-> "NonContiguousPeriods"]
  ELSE [portfolios |-> Append(held, portfolio), outcome |-> "ok"]

RECURSIVE Concat(_)
Concat(seqs) ==
  IF seqs = <<>> THEN <<>>
  ELSE Concat(SubSeq(seqs, 1, Len(seqs) - 1)) \o seqs[Len(seqs)]

RECURSIVE Sum(_)
Sum(s) == IF s = <<>> THEN 0 ELSE Sum(SubSeq(s, 1, Len(s) - 1)) + s[Len(s)]

Squares(s) == [k \in DOMAIN s |-> s[k] * s[k]]

\* MultiPeriodPortfolio.returns: the returns of the portfolios, one after
\* the other in the order they were added
mpp_returns(held) ==
  Concat([j \in DOMAIN held |-> held[j].returns])

\* np.mean(returns) as the fraction <<sum, n>>
mean(returns) == <<Sum(returns), Len(returns)>>

\* np.std(returns, ddof=1), by its square, as the fraction
\* <<n * sum(r^2) - sum(r)^2, n * (n - 1)>>
std(returns) ==
  LET n == Len(returns)
  IN <<n * Sum(Squares(returns)) - Sum(returns) * Sum(returns), n * (n - 1)>>

\* MultiPeriodPortfolio.mean and .std when they are computed
mpp_mean(held) == mean(mpp_returns(held))
mpp_std(held) == std(mpp_returns(held))

\* a metric slot (_mean, _std): None, or the value stored
EmptySlot == [cached |-> FALSE, value |-> <<0, 0>>]
Stored(v) == [cached |-> TRUE, value |-> v]

\* A plausible slip: the metric is computed again on every access.
metric_access_recompute(slot, value) == Stored(value)

\* a memoizing metric accessor: the first access computes and stores the
\* value, a later access returns (and leaves) what is stored
metric_access(slot, value) == IF slot.cached THEN slot ELSE Stored(value)

MppIdle ==
  /\ portfolios = <<>>
  /\ mpp_outcome = "none"
  /\ mean_slot = EmptySlot
  /\ std_slot = EmptySlot

\* ------------------------------------------------------------------------
\* optimization/cvar.py: mean_cvar, the convex program and the sweep
\* ------------------------------------------------------------------------
InvestmentTypes == {"FULLY_INVESTED", "MARKET_NEUTRAL", "UNCONSTRAINED"}

\* None, in a pair of weight bounds (no bound) and for "no target": a number
\* that is no weight and no sum of weights
None == 1000

\* get_investment_target(investment_type): the sum the weights must have
get_investment_target(investment_type) ==
  CASE investment_type = "FULLY_INVESTED" -> 1
    [] investment_type = "MARKET_NEUTRAL" -> 0
    [] investment_type = "UNCONSTRAINED" -> None

\* get_lower_and_upper_bounds(weight_bounds, assets_number): a single
\* (min, max) pair is given to every asset
get_lower_and_upper_bounds(weight_bounds, assets_number) ==
  [lower_bounds |-> [i \in 1..assets_number |-> weight_bounds[1]],
   upper_bounds |-> [i \in 1..assets_number |-> weight_bounds[2]]]

\* A plausible slip: "if investment_target:", which drops the target 0.
investment_target_is_truthy(investment_target) ==
  investment_target # None /\ investment_target # 0

\* "if investment_target is not None"
investment_target_is_not_none(investment_target) == investment_target # None

\* the constraints list of mean_cvar, in the order it is built
mean_cvar_constraints(assets_number, weight_bounds, investment_type) ==
  LET b == get_lower_and_upper_bounds(weight_bounds, assets_number)
      constraints ==
        << [kind |-> "portfolio_cvar <= target_cvar"],
           [kind |-> "returns.T @ w + alpha + u >= 0"],
           [kind |-> "u >= 0"],
           [kind |-> "w >= lower_bounds", bounds |-> b.lower_bounds],
           [kind |-> "w <= upper_bounds", bounds |-> b.upper_bounds] >>
      investment_target == get_investment_target(investment_type)
  IN IF investment_target_is_not_none(investment_target)
     THEN Append(constraints, [kind |-> "cp.sum(w) == investment_target",
                               target |-> investment_target])
     ELSE constraints

\* w satisfies a constraint on the weights; the constraints that involve
\* target_cvar, alpha and u are left to the solver, which may fail on them
satisfies(w, constraint) ==
  CASE constraint.kind = "w >= lower_bounds" ->
         \A i \in DOMAIN w :
            constraint.bounds[i] = None \/ w[i] >= constraint.bounds[i]
    [] constraint.kind = "w <= upper_bounds" ->
         \A i \in DOMAIN w :
            constraint.bounds[i] = None \/ w[i] <= constraint.bounds[i]
    [] constraint.kind = "cp.sum(w) == investment_target" ->
         Sum(w) = constraint.target
    [] OTHER -> TRUE

\* the values a weight takes in the model
WeightValues == {-1, 0, 1}

\* the values of w the solver can return for a problem
feasible(assets_number, constraints) ==
  {w \in [1..assets_number -> WeightValues] :
     \A k \in DOMAIN constraints : satisfies(w, constraints[k])}

SolverStatus == {"optimal", "infeasible", "solver_error"}

\* A plausible slip: the ends of the grid are swapped, np.logspace(-0.5, -3.5).
logspace_exponents_swapped(num) ==
  IF num = 1 THEN << <<-1, 2>> >>
  ELSE [i \in 1..num |-> <<-1 * (num - 1) - 6 * (i - 1), 2 * (num - 1)>>]

\* np.logspace(-3.5, -0.5, num=population_size): the exponents of the grid
\* as fractions <<numerator, denominator>> of one denominator
logspace_exponents(num) ==
  IF num = 1 THEN << <<-7, 2>> >>
  ELSE [i \in 1..num |-> <<-7 * (num - 1) + 6 * (i - 1), 2 * (num - 1)>>]

\* get_optimization_weights, one point of parameter_array: the weights of a
\* solved point are appended, a point that fails is dropped
collect(weights, target, status, w) ==
  IF status = "optimal"
  THEN Append(weights, [target |-> target, w |-> w])
  ELSE weights

NoCvarArgs ==
  [assets_number |-> 0, weight_bounds |-> <<None, None>>,
   investment_type |-> "UNCONSTRAINED", population_size |-> 0]

SweepIdle ==
  /\ cvar_args = NoCvarArgs
  /\ cvar_constraints = <<>>
  /\ cvar_status = <<>>
  /\ cvar_weights = <<>>
  /\ cvar_outcome = "none"

\* ------------------------------------------------------------------------
\* Optimization: the cost/turnover state, update and an optimization call
\* ------------------------------------------------------------------------
\* costs=None, prev_w=None: no vector
NoVector == <<>>

\* the expected return of each asset of the universe
ExpectedReturns == <<2, 1>>

\* the state after Optimization(assets, investment_type, weight_bounds)
NoCosts ==
  [costs |-> NoVector, prev_w |-> NoVector, investment_duration_in_days |-> None]

\* a keyword argument of update: given with a value, or left out
Given(value) == [given |-> TRUE, value |-> value]
OmittedVector == [given |-> FALSE, value |-> NoVector]
OmittedNumber == [given |-> FALSE, value |-> None]

\* A plausible slip: an argument left out is set to its default, None.
update_resets_omitted(state, costs, prev_w, investment_duration_in_days) ==
  [costs |-> costs.value, prev_w |-> prev_w.value,
   investment_duration_in_days |-> investment_duration_in_days.value]

\* Optimization.update(costs, prev_w, investment_duration_in_days): the
\* arguments given are set, the others are left as they are
update(state, costs, prev_w, investment_duration_in_days) ==
  [costs |-> IF costs.given THEN costs.value ELSE state.costs,
   prev_w |-> IF prev_w.given THEN prev_w.value ELSE state.prev_w,
   investment_duration_in_days |->
     IF investment_duration_in_days.given
     THEN investment_duration_in_days.value
     ELSE state.investment_duration_in_days]

Abs(x) == IF x < 0 THEN -x ELSE x

\* the objective of w, times the holding period: the expected return, less
\* the cost cost_i * |w_i - prev_w_i| / holding_days of each asset
net_return(state, w) ==
  LET days == IF state.investment_duration_in_days = None THEN 1
              ELSE state.investment_duration_in_days
      prev == IF state.prev_w = NoVector THEN [i \in DOMAIN w |-> 0]
              ELSE state.prev_w
      cost == IF state.costs = NoVector THEN 0
              ELSE Sum([i \in DOMAIN w |-> state.costs[i] * Abs(w[i] - prev[i])])
  IN days * Sum([i \in DOMAIN w |-> ExpectedReturns[i] * w[i]]) - cost

\* the fully invested portfolios of the model: all in one asset
Invested ==
  {w \in [1..Len(ExpectedReturns) -> {0, 1}] : Sum(w) = 1}

\* an optimization call in the state given: the weights of greatest net
\* return, the first asset winning a tie
optimize(state) ==
  CHOOSE w \in Invested :
    /\ \A v \in Invested : net_return(state, v) <= net_return(state, w)
    /\ \A v \in Invested :
          net_return(state, v) = net_return(state, w)
            => (CHOOSE i \in DOMAIN w : w[i] = 1) <= (CHOOSE i \in DOMAIN v : v[i] = 1)

NoUpdate ==
  [costs |-> OmittedVector, prev_w |-> OmittedVector,
   investment_duration_in_days |-> OmittedNumber]

OptIdle ==
  /\ opt_state = NoCosts
  /\ opt_update = NoUpdate
  /\ opt_weights = <<>>
  /\ opt_applied = <<>>

\* ------------------------------------------------------------------------
\* pre_selection(assets, k): the correlation-based filter of the universe
\* ------------------------------------------------------------------------
\* the correlation of two assets is low (0) or high (1)
CorrelationValues == {0, 1}

\* how much asset a is correlated with the rest of the remaining universe:
\* the sum (the average) of its pairwise correlations, or the highest of them
correlation_with_rest(corr, remaining, a, rule) ==
  LET rest == remaining \ {a}
  IN IF rule = "average"
     THEN Sum([b \in 1..Cardinality(remaining) |->
                 LET other == CHOOSE o \in remaining :
                                 Cardinality({x \in remaining : x < o}) = b - 1
                 IN IF other = a THEN 0 ELSE corr[{a, other}]])
     ELSE IF \E b \in rest : corr[{a, b}] = 1 THEN 1 ELSE 0

\* the asset to remove: the most correlated with the rest, the first by name
\* among the most correlated
most_correlated(corr, remaining, rule) ==
  CHOOSE a \in remaining :
    \A b \in remaining :
       LET ca == correlation_with_rest(corr, remaining, a, rule)
           cb == correlation_with_rest(corr, remaining, b, rule)
       IN cb < ca \/ (cb = ca /\ a <= b)

\* A plausible slip: assets are removed while k or more remain.
may_remove_one_too_many(count, k) == count >= k

\* removing one more asset does not drop the remaining count below k
may_remove(count, k) == count - 1 >= k

NoPreSelection == [m |-> 0, corr |-> <<>>, k |-> 0, rule |-> "average"]

PreSelIdle ==
  /\ presel_args = NoPreSelection
  /\ presel_remaining = {}
  /\ presel_outcome = "none"

\* ------------------------------------------------------------------------
\* utils/tools.py: walk_forward, a generator of (train, test) periods.
\* A date is a day number, dt.timedelta(days=d) is d.
\* ------------------------------------------------------------------------
\* A plausible slip: the truncated test period keeps its full end.
last_test_end_untrimmed(test_end, end_date) == test_end

\* "test_end = end_date", the end of a test period cut at end_date
last_test_end(test_end, end_date) == end_date

\* A plausible slip: the window moves by train_duration.
next_train_start_by_train(train_start, train_duration, test_duration) ==
  train_start + train_duration

\* "train_start = train_start + dt.timedelta(days=test_duration)"
next_train_start(train_start, train_duration, test_duration) ==
  train_start + test_duration

\* one turn of the while loop from train_start, down to line 95: the
\* generator returns, or yields (train_start, train_end), (test_start, test_end)
walk_forward_turn(args, train_start) ==
  LET train_end == train_start + args.train_duration
      test_start == train_end
      test_end == test_start + args.test_duration
      cut == test_end > args.end_date
      yielded(end) ==
        [returned |-> FALSE,
         periods |-> [train_start |-> train_start, train_end |-> train_end,
                      test_start |-> test_start, test_end |-> end]]
  IN IF cut /\ (args.full_period \/ test_start >= args.end_date)
     THEN [returned |-> TRUE, periods |-> <<>>]
     ELSE IF cut THEN yielded(last_test_end(test_end, args.end_date))
     ELSE yielded(test_end)

\* the periods yielded that the model remembers: the last MaxEndDate + 1,
\* which is all of them unless the same periods are yielded over and over
remember(yielded, periods) ==
  LET all == Append(yielded, periods)
  IN IF Len(all) > MaxEndDate + 1 THEN Tail(all) ELSE all

NoWalk ==
  [start_date |-> 0, end_date |-> 0, train_duration |-> 0,
   test_duration |-> 0, full_period |-> TRUE]

WalkIdle ==
  /\ wf_args = NoWalk
  /\ wf_train_start = 0
  /\ wf_yielded = <<>>
  /\ wf_state = "none"

\* ------------------------------------------------------------------------
\* the parts of the program that a specification does not use are idle
\* ------------------------------------------------------------------------
\* the three windows of the dates a < b < c: a to b, b to c, a to c
Windows == {"first", "second", "whole"}

\* no Assets object yet
NoObject == [outcome |-> "none", prices |-> EmptyFrame, returns |-> NoReturns]

TileIdle ==
  /\ tile_prices = EmptyFrame
  /\ tile_bounds = <<>>
  /\ tile_objects = [w \in Windows |-> NoObject]

LateIdle ==
  /\ SweepIdle
  /\ OptIdle
  /\ PreSelIdle
  /\ WalkIdle
  /\ TileIdle

\* ------------------------------------------------------------------------
\* Specification of the dominance calls: the two arguments are drawn from the
\* fitness vectors, then each function is called on them.
\* ------------------------------------------------------------------------
DomIdle ==
  /\ fitness_1 = <<>>
  /\ fitness_2 = <<>>
  /\ domResult = "unset"
  /\ domSwapped = "unset"
  /\ slowResult = "unset"

InitDom ==
  /\ LateIdle
  /\ fitness_1 \in FitnessVectors
  /\ fitness_2 \in FitnessVectors
  /\ domResult = "unset"
  /\ domSwapped = "unset"
  /\ slowResult = "unset"
  /\ PopIdle
  /\ AssetsIdle
  /\ MppIdle

CallDominate ==
  /\ domResult = "unset"
  /\ domResult' = BoolStr(dominate(fitness_1, fitness_2))
  /\ UNCHANGED <<fitness_1, fitness_2, domSwapped, slowResult>>
  /\ UNCHANGED <<popVars, assetsVars, mppVars, lateVars>>

CallDominateSwapped ==
  /\ domSwapped = "unset"
  /\ domSwapped' = BoolStr(dominate(fitness_2, fitness_1))
  /\ UNCHANGED <<fitness_1, fitness_2, domResult, slowResult>>
  /\ UNCHANGED <<popVars, assetsVars, mppVars, lateVars>>

CallDominateSlow ==
  /\ slowResult = "unset"
  /\ slowResult' = dominate_slow(fitness_1, fitness_2)
  /\ UNCHANGED <<fitness_1, fitness_2, domResult, domSwapped>>
  /\ UNCHANGED <<popVars, assetsVars, mppVars, lateVars>>

NextDom ==
  \/ CallDominate
  \/ CallDominateSwapped
  \/ CallDominateSlow

SpecDom == InitDom /\ [][NextDom]_vars

\* ------------------------------------------------------------------------
\* Claims on dominance
\* ------------------------------------------------------------------------
SameLength == Len(fitness_1) = Len(fitness_2)

\* C1: on two fitness vectors of the same length, dominate returns true
\* exactly when every objective of the first is >= that of the second and one
\* is strictly greater, and so agrees with dominate_slow.
C1_DominateMatchesDefinition ==
  (SameLength /\ domResult # "unset") =>
     /\ (domResult = "True") <=>
           (/\ \A i \in 1..Len(fitness_1) : fitness_1[i] >= fitness_2[i]
            /\ \E i \in 1..Len(fitness_1) : fitness_1[i] > fitness_2[i])
     /\ (slowResult # "unset" => domResult = slowResult)

\* Both functions were called on a pair where the first dominates the second
\* although it is not better on the first objective.
C1_Witness ==
  /\ SameLength
  /\ domResult = "True"
  /\ slowResult = "True"
  /\ fitness_1[1] = fitness_2[1]

\* C2: dominance is irreflexive and antisymmetric on equal-length vectors.
C2_IrreflexiveAntisymmetric ==
  SameLength =>
     /\ (fitness_1 = fitness_2 /\ domResult # "unset") => domResult = "False"
     /\ (domResult = "True" /\ domSwapped # "unset") => domSwapped = "False"

\* A dominating pair was compared in both directions.
C2_Witness ==
  /\ SameLength
  /\ domResult = "True"
  /\ domSwapped = "False"

\* C3: dominate never returns true or false for two vectors of different
\* lengths (it would have to raise IncompatibleFitness).
C3_MismatchedLengthsRaise ==
  ~SameLength => domResult \notin {"True", "False"}

\* ------------------------------------------------------------------------
\* Specification of a Population: portfolios, named or not, are added to it
\* and its Pareto front is asked for. All portfolios of one population carry
\* the two-objective fitness {mean, -std}.
\* ------------------------------------------------------------------------
PopFitness == [1..2 -> 0..MaxPopObjective]

InitPop ==
  /\ LateIdle
  /\ PopIdle
  /\ DomIdle
  /\ AssetsIdle
  /\ MppIdle

\* population.add(Portfolio(..., name=n)) as in example/mean_semivariance.py
AddNamed ==
  /\ Cardinality(population) < MaxPopulation
  /\ \E n \in 1..MaxNames, f \in PopFitness :
       LET portfolio == Portfolio(n, f, autoNames)
           r == add(population, portfolio)
       IN /\ population' = r.population
          /\ addOutcome' = r.outcome
          /\ addArg' = portfolio
  /\ lastOp' = "add"
  /\ front' = {}
  /\ UNCHANGED autoNames
  /\ UNCHANGED <<domVars, assetsVars, mppVars, lateVars>>

\* population.add(Portfolio(weights=weights, assets=assets)) as in
\* test_maximum_sharpe
AddUnnamed ==
  /\ Cardinality(population) < MaxPopulation
  /\ \E f \in PopFitness :
       LET portfolio == Portfolio(0, f, autoNames)
           r == add(population, portfolio)
       IN /\ population' = r.population
          /\ addOutcome' = r.outcome
          /\ addArg' = portfolio
  /\ autoNames' = autoNames + 1
  /\ lastOp' = "add"
  /\ front' = {}
  /\ UNCHANGED <<domVars, assetsVars, mppVars, lateVars>>

ParetoFront ==
  /\ front' = pareto_front(population)
  /\ lastOp' = "pareto_front"
  /\ UNCHANGED <<population, autoNames, addArg, addOutcome>>
  /\ UNCHANGED <<domVars, assetsVars, mppVars, lateVars>>

NextPop ==
  \/ AddNamed
  \/ AddUnnamed
  \/ ParetoFront

SpecPop == InitPop /\ [][NextPop]_vars

\* ------------------------------------------------------------------------
\* Claims on Population
\* ------------------------------------------------------------------------
\* q dominates p, by the definition: at least as good on every objective and
\* strictly better on one
Dominates(q, p) == dominate_slow(q.fitness, p.fitness) = "True"

\* C4: pareto_front() returns exactly the members no other member dominates;
\* two members of identical fitness are both in the front or both out of it.
C4_ParetoFrontExact ==
  lastOp = "pareto_front" =>
     /\ front = {p \in population :
                   \A q \in population \ {p} : ~Dominates(q, p)}
     /\ \A p, q \in population :
           p.fitness = q.fitness => (p \in front <=> q \in front)

\* The front of a population holding two tied members in the front and a
\* member out of it.
C4_Witness ==
  /\ lastOp = "pareto_front"
  /\ \E p, q \in front : p # q /\ p.fitness = q.fitness
  /\ front # population

\* C5: Pareto front closure: no member of the front is dominated by another
\* member of the population, and every member left out is dominated by a
\* member of the front or tied with one.
C5_ParetoFrontClosure ==
  (lastOp = "pareto_front" /\ population # {}) =>
     /\ front \subseteq population
     /\ \A p \in front : \A q \in population \ {p} : ~Dominates(q, p)
     /\ \A p \in population \ front :
           \E q \in front : Dominates(q, p) \/ q.fitness = p.fitness

\* A member left out is dominated by another member left out, and so only
\* through it by a member of the front.
C5_Witness ==
  /\ lastOp = "pareto_front"
  /\ \E p, q \in population \ front : Dominates(q, p)

NoDuplicateNames ==
  \A p, q \in population : p.name = q.name => p = q

\* C6: no two portfolios of a population have the same name; an add of a
\* name already held fails with DuplicateName and leaves the population as
\* it was.
C6_UniqueNames ==
  /\ []NoDuplicateNames
  /\ [][lastOp' = "add" =>
          /\ (\E p \in population : p.name = addArg'.name)
                => (addOutcome' = "DuplicateName" /\ population' = population)
          /\ addOutcome' = "DuplicateName" => population' = population
          /\ addOutcome' = "ok" => population' = population \cup {addArg'}]_vars

\* An add was refused for its name while a portfolio with a generated name
\* is held.
C6_Witness ==
  /\ lastOp = "add"
  /\ addOutcome = "DuplicateName"
  /\ \E p \in population : p.name[1] = "generated"
  /\ \E p \in population : p.name = addArg.name /\ p # addArg

\* ------------------------------------------------------------------------
\* Specification of Assets: a price table with missing prices is drawn, an
\* Assets object is constructed from it, and its returns are read.
\* ------------------------------------------------------------------------
InDates == [i \in 1..MaxDates |-> i]
InNames == [k \in 1..MaxAssets |-> k]
Cells == (1..MaxDates) \X (1..MaxAssets)

\* the price of asset c[2] on date c[1] when it is not missing
Price(c) == 10 * c[1] + c[2]

InputFrame(missing) ==
  DataFrame(InDates, InNames,
            [c \in Cells |-> IF c \in missing THEN NaN ELSE Price(c)])

InitAssets ==
  /\ LateIdle
  /\ \E missing \in SUBSET Cells :
        /\ Cardinality(missing) <= MaxMissing
        /\ in_prices = InputFrame(missing)
  /\ assets_args = NoArgs
  /\ assets_outcome = "none"
  /\ self_prices = EmptyFrame
  /\ self_returns = NoReturns
  /\ DomIdle
  /\ PopIdle
  /\ MppIdle

\* the ways the table is cut before it is checked: whole; from the second
\* date on; two named columns, reordered; one column drawn at random
Selections ==
  {[start_date |-> NoDate, end_date |-> NoDate, names_to_keep |-> NoNames,
    random_selection |-> NoSelection],
   [start_date |-> 2, end_date |-> MaxDates, names_to_keep |-> NoNames,
    random_selection |-> NoSelection],
   [start_date |-> NoDate, end_date |-> NoDate, names_to_keep |-> <<2, 1>>,
    random_selection |-> NoSelection],
   [start_date |-> NoDate, end_date |-> NoDate, names_to_keep |-> NoNames,
    random_selection |-> 1]}

\* assets = Assets(prices=prices, ...)
Construct ==
  /\ assets_outcome = "none"
  /\ \E sel \in Selections, pre \in BOOLEAN, ta \in Thresholds, td \in Thresholds,
        pick \in 1..MaxAssets :
        LET args == [start_date |-> sel.start_date,
                     end_date |-> sel.end_date,
                     preprocessing |-> pre,
                     asset_missing_threshold |-> ta,
                     dates_missing_threshold |-> td,
                     names_to_keep |-> sel.names_to_keep,
                     random_selection |-> sel.random_selection]
            r == Assets(in_prices, args, <<pick>>)
        IN /\ (sel.random_selection = NoSelection => pick = 1)
           /\ assets_args' = args
           /\ assets_outcome' = r.outcome
           /\ self_prices' = r.prices
  /\ self_returns' = NoReturns
  /\ UNCHANGED in_prices
  /\ UNCHANGED <<domVars, popVars, mppVars, lateVars>>

\* assets.returns
ReadReturns ==
  /\ assets_outcome = "ok"
  /\ self_returns' = IF self_returns.cached THEN self_returns
                     ELSE [cached |-> TRUE, value |-> pct_change(self_prices)]
  /\ UNCHANGED <<in_prices, assets_args, assets_outcome, self_prices>>
  /\ UNCHANGED <<domVars, popVars, mppVars, lateVars>>

NextAssets ==
  \/ Construct
  \/ ReadReturns

SpecAssets == InitAssets /\ [][NextAssets]_vars

\* ------------------------------------------------------------------------
\* Claims on Assets
\* ------------------------------------------------------------------------
Preprocessed == assets_outcome = "ok" /\ assets_args.preprocessing

NoMissingPrice == \A c \in DOMAIN self_prices.val : self_prices.val[c] # NaN

NoMissingReturn ==
  \A k \in DOMAIN self_returns.value :
     \A i \in DOMAIN self_returns.value[k] : self_returns.value[k][i] # NaNReturn

\* C7: after Assets is constructed with preprocessing, no price of the table
\* is missing, hence no return is missing.
C7_NoMissingValues ==
  Preprocessed => (NoMissingPrice /\ NoMissingReturn)

\* C8 as claimed: a threshold outside (0,1) makes the construction fail,
\* whatever the other arguments are.
C8_ThresholdAlwaysChecked ==
  (assets_outcome # "none"
     /\ (~in_open_unit_interval(assets_args.asset_missing_threshold)
         \/ ~in_open_unit_interval(assets_args.dates_missing_threshold)))
  => assets_outcome # "ok"

\* C8 as amended: constructing Assets with preprocessing enabled and a
\* threshold outside (0,1) fails; the thresholds reach the object nowhere, so
\* a value out of the interval is never clamped and used. With
\* preprocessing=False the thresholds are not read.
C8_ThresholdCheckedWhenPreprocessing ==
  (assets_outcome # "none" /\ assets_args.preprocessing
     /\ (~in_open_unit_interval(assets_args.asset_missing_threshold)
         \/ ~in_open_unit_interval(assets_args.dates_missing_threshold)))
  => assets_outcome # "ok"

\* A non-empty table reached the threshold test with the dates threshold out
\* of the interval (and the assets threshold in it), and was refused for it.
C8_Witness ==
  /\ assets_args.preprocessing
  /\ in_open_unit_interval(assets_args.asset_missing_threshold)
  /\ assets_args.dates_missing_threshold[1] = ThresholdDen
  /\ assets_outcome = "ValueError: dates_missing_threshold"

\* ------------------------------------------------------------------------
\* Specification of a MultiPeriodPortfolio, used as the test uses it:
\* portfolios of sub-periods are added to it, then its mean and std are read,
\* and its metrics are reset. A portfolio is added while no metric is stored
\* (at first, and again after reset_metrics()).
\* ------------------------------------------------------------------------
Days == 0..MaxDay
Weights == [1..Len(MppAssets) -> 0..MaxWeight]

InitMpp ==
  /\ LateIdle
  /\ MppIdle
  /\ DomIdle
  /\ PopIdle
  /\ AssetsIdle

\* multi_period_portfolio.add(Portfolio(weights=weights, assets=assets))
MppAdd ==
  /\ ~mean_slot.cached
  /\ ~std_slot.cached
  /\ \E s \in Days, e \in Days, w \in Weights :
        /\ s < e
        /\ LET r == mpp_add(portfolios, PeriodPortfolio(s, e, w))
           IN /\ Len(r.portfolios) <= MaxPeriods
              /\ portfolios' = r.portfolios
              /\ mpp_outcome' = r.outcome
  /\ UNCHANGED <<mean_slot, std_slot>>
  /\ UNCHANGED <<domVars, popVars, assetsVars, lateVars>>

\* multi_period_portfolio.mean: computed and stored on the first access
MppMean ==
  /\ portfolios # <<>>
  /\ mean_slot' = metric_access(mean_slot, mpp_mean(portfolios))
  /\ UNCHANGED <<portfolios, mpp_outcome, std_slot>>
  /\ UNCHANGED <<domVars, popVars, assetsVars, lateVars>>

\* multi_period_portfolio.std
MppStd ==
  /\ portfolios # <<>>
  /\ std_slot' = metric_access(std_slot, mpp_std(portfolios))
  /\ UNCHANGED <<portfolios, mpp_outcome, mean_slot>>
  /\ UNCHANGED <<domVars, popVars, assetsVars, lateVars>>

\* multi_period_portfolio.reset_metrics()
MppResetMetrics ==
  /\ mean_slot' = EmptySlot
  /\ std_slot' = EmptySlot
  /\ UNCHANGED <<portfolios, mpp_outcome>>
  /\ UNCHANGED <<domVars, popVars, assetsVars, lateVars>>

NextMpp ==
  \/ MppAdd
  \/ MppMean
  \/ MppStd
  \/ MppResetMetrics

SpecMpp == InitMpp /\ [][NextMpp]_vars

\* ------------------------------------------------------------------------
\* Claims on MultiPeriodPortfolio
\* ------------------------------------------------------------------------
PeriodLen(j) == portfolios[j].end_date - portfolios[j].start_date

\* the number of returns of the periods added before the j-th
Offset(j) == Sum([i \in 1..(j - 1) |-> PeriodLen(i)])

\* the return, on the k-th date after its start, of the j-th portfolio: the
\* weighted sum over the assets of the asset returns of that date
WeightedReturn(j, k) ==
  Sum([i \in 1..Len(MppAssets) |->
         AssetReturn(i, portfolios[j].start_date + k) * portfolios[j].weights[i]])

TotalLen == Offset(Len(portfolios) + 1)

\* the weighted returns of the periods, period after period in the order added
ConcatenatedReturns ==
  [pos \in 1..TotalLen |->
     LET j == CHOOSE j \in DOMAIN portfolios :
                 Offset(j) < pos /\ pos <= Offset(j) + PeriodLen(j)
     IN WeightedReturn(j, pos - Offset(j))]

\* the sum, and the sum of the squares, of the returns of the j-th period
PeriodSum(j) == Sum([k \in 1..PeriodLen(j) |-> WeightedReturn(j, k)])
PeriodSumSq(j) ==
  Sum([k \in 1..PeriodLen(j) |-> WeightedReturn(j, k) * WeightedReturn(j, k)])

TotalSum == Sum([j \in DOMAIN portfolios |-> PeriodSum(j)])
TotalSumSq == Sum([j \in DOMAIN portfolios |-> PeriodSumSq(j)])

\* two fractions <<a, b>>, <<c, d>> are the same number
SameFraction(x, y) == x[1] * y[2] = y[1] * x[2]

\* the mean of the means of two sub-periods, as a fraction
mean_of_means ==
  <<PeriodSum(1) * PeriodLen(2) + PeriodSum(2) * PeriodLen(1),
    2 * PeriodLen(1) * PeriodLen(2)>>

C10_NoSharedDate ==
  \A i, j \in DOMAIN portfolios :
     i < j => portfolios[i].end_date < portfolios[j].start_date

InPeriodOrder ==
  \A i, j \in DOMAIN portfolios :
     i < j => /\ portfolios[i].end_date <= portfolios[j].start_date
              /\ ~Overlap(portfolios[i], portfolios[j])

\* C10 as amended: the periods held never overlap by more than a boundary
\* date and are in the order of their start dates; an add that is accepted
\* appends the portfolio after the others, and a refused add
\* (NonContiguousPeriods) leaves the portfolios as they were.
C10_NoOverlapInOrder ==
  /\ []InPeriodOrder
  /\ [][/\ portfolios' # portfolios
             => /\ mpp_outcome' = "ok"
                /\ Len(portfolios') = Len(portfolios) + 1
                /\ SubSeq(portfolios', 1, Len(portfolios)) = portfolios
        /\ mpp_outcome' = "NonContiguousPeriods" => portfolios' = portfolios
        /\ (mpp_outcome' = "ok" /\ mpp_outcome # "ok")
             => portfolios' # portfolios]_vars

\* An add was refused while the portfolios held share a boundary date.
C10_Witness ==
  /\ mpp_outcome = "NonContiguousPeriods"
  /\ Len(portfolios) = 2
  /\ portfolios[1].end_date = portfolios[2].start_date

\* ------------------------------------------------------------------------
\* Specification of the metrics cache of a MultiPeriodPortfolio: metric
\* accesses, add and reset_metrics() in any order. Here a portfolio is also
\* added while a metric is stored; add does not touch the slots (spec 3 and
\* 4.4: the cache is invalidated only by an explicit reset).
\* ------------------------------------------------------------------------
InitCache ==
  /\ LateIdle
  /\ MppIdle
  /\ DomIdle
  /\ PopIdle
  /\ AssetsIdle

\* the portfolios added here weigh every asset the same
CacheWeights == {w \in Weights : \A i \in DOMAIN w : w[i] = w[1]}

\* multi_period_portfolio.add(portfolio), whatever the slots hold
CacheAdd ==
  /\ \E s \in Days, e \in Days, w \in CacheWeights :
        /\ s < e
        /\ LET r == mpp_add(portfolios, PeriodPortfolio(s, e, w))
           IN /\ Len(r.portfolios) <= MaxPeriods
              /\ portfolios' = r.portfolios
              /\ mpp_outcome' = r.outcome
  /\ UNCHANGED <<mean_slot, std_slot>>
  /\ UNCHANGED <<domVars, popVars, assetsVars, lateVars>>

NextCache ==
  \/ CacheAdd
  \/ MppMean
  \/ MppStd
  \/ MppResetMetrics

SpecCache == InitCache /\ [][NextCache]_vars

\* ------------------------------------------------------------------------
\* Claims on the metrics cache
\* ------------------------------------------------------------------------
\* a step that empties a slot is reset_metrics(): it empties every slot and
\* leaves the portfolios
ResetStep ==
  /\ mean_slot' = EmptySlot
  /\ std_slot' = EmptySlot
  /\ portfolios' = portfolios

\* C11: a metric slot is filled only by the first access of its metric
\* since construction or the last reset_metrics(), with the value computed
\* then; a filled slot keeps its value through later accesses and through
\* add, and changes only when reset_metrics() empties every slot.
C11_CacheInvalidatedOnlyByReset ==
  /\ [](portfolios = <<>> => (~mean_slot.cached /\ ~std_slot.cached))
  /\ [][/\ mean_slot' # mean_slot
             => \/ /\ ~mean_slot.cached
                   /\ mean_slot' = Stored(mpp_mean(portfolios))
                   /\ std_slot' = std_slot
                   /\ portfolios' = portfolios
                \/ ResetStep
        /\ std_slot' # std_slot
             => \/ /\ ~std_slot.cached
                   /\ std_slot' = Stored(mpp_std(portfolios))
                   /\ mean_slot' = mean_slot
                   /\ portfolios' = portfolios
                \/ ResetStep
        /\ (portfolios' # portfolios \/ mpp_outcome' # mpp_outcome)
             => (mean_slot' = mean_slot /\ std_slot' = std_slot)]_vars

\* The mean was read after the first add and is still stored after a second
\* add, the std not having been read.
C11_Witness ==
  /\ Len(portfolios) = 2
  /\ mean_slot = Stored(mpp_mean(SubSeq(portfolios, 1, 1)))
  /\ mean_slot # Stored(mpp_mean(portfolios))
  /\ ~std_slot.cached

\* ------------------------------------------------------------------------
\* Specification of mean_cvar: the problem is built from the arguments, then
\* solved for each target_cvar of the grid in turn, and the weights of the
\* points solved are returned.
\* ------------------------------------------------------------------------
WeightBounds == {<<0, None>>, <<-1, 1>>}

InitSweep ==
  /\ DomIdle
  /\ PopIdle
  /\ AssetsIdle
  /\ MppIdle
  /\ LateIdle

\* mean_cvar(expected_returns, returns, weight_bounds, investment_type,
\* population_size): lines 43-71, the problem
CallMeanCvar ==
  /\ cvar_outcome = "none"
  /\ \E assets_number \in 1..Len(MppAssets), weight_bounds \in WeightBounds,
        investment_type \in InvestmentTypes,
        population_size \in 1..MaxPopulationSize :
       /\ cvar_args' = [assets_number |-> assets_number,
                        weight_bounds |-> weight_bounds,
                        investment_type |-> investment_type,
                        population_size |-> population_size]
       /\ cvar_constraints' = mean_cvar_constraints(assets_number, weight_bounds,
                                                    investment_type)
  /\ cvar_outcome' = "sweeping"
  /\ UNCHANGED <<cvar_status, cvar_weights>>
  /\ UNCHANGED <<domVars, popVars, assetsVars, mppVars, optVars, preselVars, wfVars,
                 tileVars>>

\* get_optimization_weights: the problem is solved for the next value of
\* parameter_array
SolvePoint ==
  /\ cvar_outcome = "sweeping"
  /\ Len(cvar_status) < cvar_args.population_size
  /\ LET parameter_array == logspace_exponents(cvar_args.population_size)
         target == parameter_array[Len(cvar_status) + 1]
         values == feasible(cvar_args.assets_number, cvar_constraints)
     IN \/ \E w \in values :
             /\ cvar_status' = Append(cvar_status, "optimal")
             /\ cvar_weights' = collect(cvar_weights, target, "optimal", w)
        \/ \E status \in SolverStatus \ {"optimal"} :
             /\ cvar_status' = Append(cvar_status, status)
             /\ cvar_weights' = collect(cvar_weights, target, status, <<>>)
  /\ UNCHANGED <<cvar_args, cvar_constraints, cvar_outcome>>
  /\ UNCHANGED <<domVars, popVars, assetsVars, mppVars, optVars, preselVars, wfVars,
                 tileVars>>

\* the end of the sweep: the weights collected are returned, unless every
\* point failed
ReturnWeights ==
  /\ cvar_outcome = "sweeping"
  /\ Len(cvar_status) = cvar_args.population_size
  /\ cvar_outcome' = IF cvar_weights = <<>> THEN "OptimizationFailed"
                     ELSE "returned"
  /\ UNCHANGED <<cvar_args, cvar_constraints, cvar_status, cvar_weights>>
  /\ UNCHANGED <<domVars, popVars, assetsVars, mppVars, optVars, preselVars, wfVars,
                 tileVars>>

NextSweep ==
  \/ CallMeanCvar
  \/ SolvePoint
  \/ ReturnWeights

SpecSweep == InitSweep /\ [][NextSweep]_vars

\* ------------------------------------------------------------------------
\* Claims on mean_cvar
\* ------------------------------------------------------------------------
\* the fraction x is less than the fraction y (positive denominators)
LessFraction(x, y) == x[1] * y[2] < y[1] * x[2]

Increasing(targets) ==
  \A i, j \in DOMAIN targets : i < j => LessFraction(targets[i], targets[j])

\* the targets of the points solved so far with status optimal, in grid order
RECURSIVE SolvedTargets(_, _)
SolvedTargets(grid, status) ==
  IF status = <<>> THEN <<>>
  ELSE LET n == Len(status)
           before == SolvedTargets(grid, SubSeq(status, 1, n - 1))
       IN IF status[n] = "optimal" THEN Append(before, grid[n]) ELSE before

\* C12: the grid has population_size increasing points; each is solved once,
\* in turn; a point that fails is dropped and the sweep goes on; what is
\* returned is one weight vector of length asset_nb per point solved, in
\* increasing target order, so at most population_size of them.
C12_SweepDropsFailedPoints ==
  /\ [](cvar_outcome # "none" =>
          LET N == cvar_args.population_size
              grid == logspace_exponents(N)
          IN /\ Len(grid) = N
             /\ Increasing(grid)
             /\ Len(cvar_status) <= N
             /\ Len(cvar_weights) <= N
             /\ [k \in DOMAIN cvar_weights |-> cvar_weights[k].target]
                  = SolvedTargets(grid, cvar_status)
             /\ Increasing([k \in DOMAIN cvar_weights |-> cvar_weights[k].target])
             /\ \A k \in DOMAIN cvar_weights :
                   Len(cvar_weights[k].w) = cvar_args.assets_number
             /\ cvar_outcome \in {"returned", "OptimizationFailed"}
                  => Len(cvar_status) = N)
  /\ [][/\ cvar_status' # cvar_status
             => /\ Len(cvar_status') = Len(cvar_status) + 1
                /\ SubSeq(cvar_status', 1, Len(cvar_status)) = cvar_status
                /\ cvar_outcome' = "sweeping"
                /\ cvar_status'[Len(cvar_status')] # "optimal"
                     => cvar_weights' = cvar_weights
        /\ cvar_outcome' = "returned" => cvar_weights' = cvar_weights]_vars

\* A sweep of three points returned two weight vectors, the second point
\* having failed.
C12_Witness ==
  /\ cvar_outcome = "returned"
  /\ cvar_status = <<"optimal", "infeasible", "optimal">>
  /\ Len(cvar_weights) = 2

HasConstraint(kind) ==
  \E k \in DOMAIN cvar_constraints : cvar_constraints[k].kind = kind

BudgetTargets ==
  {cvar_constraints[k].target :
     k \in {j \in DOMAIN cvar_constraints :
              cvar_constraints[j].kind = "cp.sum(w) == investment_target"}}

\* C13: the problem constrains the sum of the weights to 1 when fully
\* invested, to 0 when market neutral and not at all when unconstrained; the
\* weight bounds are constrained in the three cases; the weights returned
\* obey the constraints.
C13_BudgetFollowsInvestmentType ==
  cvar_outcome # "none" =>
    /\ cvar_args.investment_type = "FULLY_INVESTED" => BudgetTargets = {1}
    /\ cvar_args.investment_type = "MARKET_NEUTRAL" => BudgetTargets = {0}
    /\ cvar_args.investment_type = "UNCONSTRAINED" => BudgetTargets = {}
    /\ HasConstraint("w >= lower_bounds")
    /\ HasConstraint("w <= upper_bounds")
    /\ \A k \in DOMAIN cvar_weights :
          LET w == cvar_weights[k].w
          IN /\ cvar_args.investment_type = "FULLY_INVESTED" => Sum(w) = 1
             /\ cvar_args.investment_type = "MARKET_NEUTRAL" => Sum(w) = 0
             /\ \A i \in DOMAIN w :
                   /\ w[i] >= cvar_args.weight_bounds[1]
                   /\ cvar_args.weight_bounds[2] # None
                        => w[i] <= cvar_args.weight_bounds[2]

\* A market-neutral sweep returned weights that are not all zero.
C13_Witness ==
  /\ cvar_outcome = "returned"
  /\ cvar_args.investment_type = "MARKET_NEUTRAL"
  /\ \E k \in DOMAIN cvar_weights : cvar_weights[k].w = <<1, -1>>

\* ------------------------------------------------------------------------
\* Specification of an Optimization object: update calls, with some of the
\* arguments given, and optimization calls, in any order, as in
\* test_mean_variance.
\* ------------------------------------------------------------------------
\* costs=0.1 (the same for every asset) or a cost on the first asset only
CostArgs == {OmittedVector, Given(<<1, 1>>), Given(<<2, 0>>)}

\* prev_w=None, np.ones(asset_nb), or a previous weight on the first asset
PrevArgs == {OmittedVector, Given(NoVector), Given(<<1, 1>>), Given(<<1, 0>>)}

\* investment_duration_in_days, in days
DurationArgs == {OmittedNumber, Given(1), Given(2)}

InitOpt ==
  /\ DomIdle
  /\ PopIdle
  /\ AssetsIdle
  /\ MppIdle
  /\ LateIdle

\* model.update(costs=..., prev_w=..., investment_duration_in_days=...)
OptUpdate ==
  /\ \E costs \in CostArgs, prev_w \in PrevArgs,
        investment_duration_in_days \in DurationArgs :
       /\ opt_state' = update(opt_state, costs, prev_w, investment_duration_in_days)
       /\ opt_update' = [costs |-> costs, prev_w |-> prev_w,
                         investment_duration_in_days |-> investment_duration_in_days]
  /\ UNCHANGED <<opt_weights, opt_applied>>
  /\ UNCHANGED <<domVars, popVars, assetsVars, mppVars, sweepVars, preselVars,
                 wfVars, tileVars>>

\* weights = model.mean_variance(target_volatility=target_volatility)
OptOptimize ==
  /\ Len(opt_weights) < MaxCalls
  /\ opt_weights' = Append(opt_weights, optimize(opt_state))
  /\ opt_applied' = <<opt_state>>
  /\ UNCHANGED <<opt_state, opt_update>>
  /\ UNCHANGED <<domVars, popVars, assetsVars, mppVars, sweepVars, preselVars,
                 wfVars, tileVars>>

NextOpt ==
  \/ OptUpdate
  \/ OptOptimize

SpecOpt == InitOpt /\ [][NextOpt]_vars

\* ------------------------------------------------------------------------
\* Claims on Optimization.update
\* ------------------------------------------------------------------------
\* the part of the state an argument of the last update names is the
\* argument's value if it was given, and what it was before if not
FieldAfterUpdate(before, arg) == IF arg.given THEN arg.value ELSE before

\* C14: update sets the parts of the cost state that its arguments give and
\* leaves the others as earlier calls set them; an optimization call reads
\* the state as it is then and leaves it; the weight vectors returned before
\* an update or a later call are not altered.
C14_UpdateChangesOnlyWhatIsGiven ==
  /\ [](opt_weights # <<>>
          => opt_weights[Len(opt_weights)] = optimize(opt_applied[1]))
  /\ [][/\ (opt_state' # opt_state \/ opt_update' # opt_update)
             => /\ opt_state'.costs
                     = FieldAfterUpdate(opt_state.costs, opt_update'.costs)
                /\ opt_state'.prev_w
                     = FieldAfterUpdate(opt_state.prev_w, opt_update'.prev_w)
                /\ opt_state'.investment_duration_in_days
                     = FieldAfterUpdate(opt_state.investment_duration_in_days,
                                        opt_update'.investment_duration_in_days)
                /\ opt_weights' = opt_weights
                /\ opt_applied' = opt_applied
        /\ opt_weights' # opt_weights
             => /\ opt_state' = opt_state
                /\ Len(opt_weights') = Len(opt_weights) + 1
                /\ SubSeq(opt_weights', 1, Len(opt_weights)) = opt_weights
                /\ opt_applied' = <<opt_state>>]_vars

\* After update(costs, prev_w=None, investment_duration_in_days) and an
\* optimization, update(prev_w=p) was called and the next optimization has
\* applied the cost and the holding period of the first update with the
\* previous weights p, its weights differing from the ones returned before.
C14_Witness ==
  /\ opt_update = [costs |-> OmittedVector, prev_w |-> Given(<<1, 0>>),
                   investment_duration_in_days |-> OmittedNumber]
  /\ Len(opt_weights) = 2
  /\ opt_weights[1]
       = optimize([costs |-> <<2, 0>>, prev_w |-> NoVector,
                   investment_duration_in_days |-> 1])
  /\ opt_applied = <<[costs |-> <<2, 0>>, prev_w |-> <<1, 0>>,
                      investment_duration_in_days |-> 1]>>
  /\ opt_weights[1] # opt_weights[2]

\* ------------------------------------------------------------------------
\* Specification of pre_selection: called on a universe of m assets with a
\* requested count k (a whole number), it removes one asset at a time, then returns the names
\* that remain.
\* ------------------------------------------------------------------------
InitPreSel ==
  /\ DomIdle
  /\ PopIdle
  /\ AssetsIdle
  /\ MppIdle
  /\ LateIdle

Pairs(m) == {{a, b} : a \in 1..m, b \in 1..m} \ {{a} : a \in 1..m}

\* new_assets_names = pre_selection(assets=assets, k=k)
CallPreSelection ==
  /\ presel_outcome = "none"
  /\ \E m \in 2..MaxUniverse, rule \in {"average", "highest"} :
       \E corr \in [Pairs(m) -> CorrelationValues], k \in 1..(m + 1) :
          /\ presel_args' = [m |-> m, corr |-> corr, k |-> k, rule |-> rule]
          /\ presel_remaining' = 1..m
          /\ presel_outcome' = IF k > m THEN "InvalidParameter"
                               ELSE "selecting"
  /\ UNCHANGED <<domVars, popVars, assetsVars, mppVars, sweepVars, optVars, wfVars,
                 tileVars>>

\* one turn of the loop: the most correlated asset is removed
RemoveMostCorrelated ==
  /\ presel_outcome = "selecting"
  /\ may_remove(Cardinality(presel_remaining), presel_args.k)
  /\ presel_remaining' =
       presel_remaining \ {most_correlated(presel_args.corr, presel_remaining,
                                           presel_args.rule)}
  /\ UNCHANGED <<presel_args, presel_outcome>>
  /\ UNCHANGED <<domVars, popVars, assetsVars, mppVars, sweepVars, optVars, wfVars,
                 tileVars>>

\* the loop ends: the names that remain are returned
ReturnSelection ==
  /\ presel_outcome = "selecting"
  /\ ~may_remove(Cardinality(presel_remaining), presel_args.k)
  /\ presel_outcome' = "returned"
  /\ UNCHANGED <<presel_args, presel_remaining>>
  /\ UNCHANGED <<domVars, popVars, assetsVars, mppVars, sweepVars, optVars, wfVars,
                 tileVars>>

NextPreSel ==
  \/ CallPreSelection
  \/ RemoveMostCorrelated
  \/ ReturnSelection

SpecPreSel == InitPreSel /\ [][NextPreSel]_vars

InitWalk ==
  /\ DomIdle
  /\ PopIdle
  /\ AssetsIdle
  /\ MppIdle
  /\ LateIdle

WalkArgs(test_durations) ==
  [start_date : 0..MaxEndDate, end_date : 0..MaxEndDate,
   train_duration : 0..MaxTrain, test_duration : test_durations,
   full_period : BOOLEAN]

\* walk_forward(start_date, end_date, train_duration, test_duration,
\* full_period) with test_duration >= 1, up to "train_start = start_date"
CallWalkForward ==
  /\ wf_state = "none"
  /\ \E args \in WalkArgs(1..MaxTest) :
       /\ wf_args' = args
       /\ wf_train_start' = args.start_date
  /\ wf_state' = "running"
  /\ UNCHANGED wf_yielded
  /\ UNCHANGED <<domVars, popVars, assetsVars, mppVars, sweepVars, optVars,
                 preselVars, tileVars>>

\* one turn of "while True", lines 87-95: return, or yield and wait
WalkTurn ==
  /\ wf_state = "running"
  /\ LET turn == walk_forward_turn(wf_args, wf_train_start)
     IN /\ wf_state' = IF turn.returned THEN "returned" ELSE "suspended"
        /\ wf_yielded' = IF turn.returned THEN wf_yielded
                         ELSE remember(wf_yielded, turn.periods)
  /\ UNCHANGED <<wf_args, wf_train_start>>
  /\ UNCHANGED <<domVars, popVars, assetsVars, mppVars, sweepVars, optVars,
                 preselVars, tileVars>>

\* the caller asks for the next periods: line 96 moves train_start and the
\* loop goes on
WalkResume ==
  /\ wf_state = "suspended"
  /\ wf_train_start' = next_train_start(wf_train_start, wf_args.train_duration,
                                        wf_args.test_duration)
  /\ wf_state' = "running"
  /\ UNCHANGED <<wf_args, wf_yielded>>
  /\ UNCHANGED <<domVars, popVars, assetsVars, mppVars, sweepVars, optVars,
                 preselVars, tileVars>>

NextWalk ==
  \/ CallWalkForward
  \/ WalkTurn
  \/ WalkResume

SpecWalk == InitWalk /\ [][NextWalk]_vars

\* ------------------------------------------------------------------------
\* Specification of walk_forward with test_duration >= 0, the generator
\* being run as long as it has not returned.
\* ------------------------------------------------------------------------
CallWalkForwardAny ==
  /\ wf_state = "none"
  /\ \E args \in WalkArgs(0..MaxTest) :
       /\ wf_args' = args
       /\ wf_train_start' = args.start_date
  /\ wf_state' = "running"
  /\ UNCHANGED wf_yielded
  /\ UNCHANGED <<domVars, popVars, assetsVars, mppVars, sweepVars, optVars,
                 preselVars, tileVars>>

NextWalkAny ==
  \/ CallWalkForwardAny
  \/ WalkTurn
  \/ WalkResume

SpecWalkAny == InitWalk /\ [][NextWalkAny]_vars /\ WF_vars(NextWalkAny)

TestLen(k) == wf_yielded[k].test_end - wf_yielded[k].test_start

\* C18: every yielded test period ends no later than end_date; with
\* full_period it is test_duration days long; without, only the last one
\* yielded can be shorter, and that one ends on end_date, starts before it,
\* and nothing is yielded after it.
C18_TestPeriodLengths ==
  /\ [](\A k \in DOMAIN wf_yielded :
           /\ wf_yielded[k].test_end <= wf_args.end_date
           /\ TestLen(k) <= wf_args.test_duration
           /\ wf_args.full_period => TestLen(k) = wf_args.test_duration
           /\ TestLen(k) < wf_args.test_duration
                => /\ k = Len(wf_yielded)
                   /\ wf_yielded[k].test_end = wf_args.end_date
                   /\ wf_yielded[k].test_start < wf_args.end_date)
  /\ [][(/\ wf_yielded # <<>>
         /\ TestLen(Len(wf_yielded)) < wf_args.test_duration)
           => wf_yielded' = wf_yielded]_vars

\* Without full_period, a full test period then a shorter one were yielded.
C18_Witness ==
  /\ wf_state = "returned"
  /\ ~wf_args.full_period
  /\ Len(wf_yielded) = 2
  /\ TestLen(1) = wf_args.test_duration
  /\ TestLen(2) = 1
  /\ wf_args.test_duration = MaxTest

\* C19: the generator returns after finitely many turns, for every
\* test_duration >= 0.
C19_WalkForwardReturns == <>(wf_state = "returned")

\* ------------------------------------------------------------------------
\* More claims on Assets (SpecAssets)
\* ------------------------------------------------------------------------
\* the table as it enters _preprocessing, when no column was drawn at random
PricesChecked ==
  LET sliced == loc(in_prices, assets_args.start_date, assets_args.end_date)
  IN IF assets_args.names_to_keep = NoNames THEN sliced
     ELSE columns(sliced, assets_args.names_to_keep)

\* the table after the first step of _preprocessing, the removal of assets
AssetsRemaining ==
  drop_assets(PricesChecked, Len(PricesChecked.dates),
              assets_args.dates_missing_threshold)

\* C17: a date is kept by _preprocessing iff its count of missing prices
\* among the assets that remain after the removal of assets is at most
\* asset_missing_threshold times the number of those assets.
C17_DateKeptByFractionOfRemaining ==
  (Preprocessed /\ assets_args.random_selection = NoSelection)
    => self_prices.dates
         = SelectSeq(AssetsRemaining.dates,
                     LAMBDA d :
                       count_nan_date(AssetsRemaining, d)
                           * assets_args.asset_missing_threshold[2]
                         <= Len(AssetsRemaining.names)
                              * assets_args.asset_missing_threshold[1])

\* C20: a constructed Assets object has a price table with at least one
\* asset and at least one date.
C20_PricesNeverEmpty ==
  assets_outcome = "ok"
    => /\ ~empty(self_prices)
       /\ Len(self_prices.names) >= 1
       /\ Len(self_prices.dates) >= 1

\* ------------------------------------------------------------------------
\* Specification of the windows: a price table without missing prices and
\* three dates a < b < c are drawn; an Assets object is constructed on each
\* of the windows a to b, b to c and a to c, and its returns are read.
\* ------------------------------------------------------------------------
MaxTileDay == 5

\* the index of the table: the days of a set, in increasing order
TileDates(days) == SelectSeq([i \in 1..MaxTileDay |-> i], LAMBDA d : d \in days)

\* the table: every asset has a price on every date of the index
TileFrame(days) ==
  DataFrame(TileDates(days), InNames,
            [c \in (1..MaxTileDay) \X (1..MaxAssets) |-> Price(c)])

InitTile ==
  /\ DomIdle
  /\ PopIdle
  /\ AssetsIdle
  /\ MppIdle
  /\ SweepIdle
  /\ OptIdle
  /\ PreSelIdle
  /\ WalkIdle
  /\ \E days \in SUBSET (1..MaxTileDay) :
       /\ days # {}
       /\ tile_prices = TileFrame(days)
  /\ \E a \in 1..MaxTileDay, b \in 1..MaxTileDay, c \in 1..MaxTileDay :
       /\ a < b
       /\ b < c
       /\ tile_bounds = <<a, b, c>>
  /\ tile_objects = [w \in Windows |-> NoObject]

\* start_date and end_date of each window
WindowArgs(w, bounds) ==
  [NoArgs EXCEPT
     !.start_date = IF w = "second" THEN bounds[2] ELSE bounds[1],
     !.end_date = IF w = "first" THEN bounds[2] ELSE bounds[3],
     !.asset_missing_threshold = <<1, ThresholdDen>>,
     !.dates_missing_threshold = <<1, ThresholdDen>>]

\* assets = Assets(prices=prices, start_date=period[0], end_date=period[1])
ConstructWindow ==
  /\ \E w \in Windows :
       /\ tile_objects[w].outcome = "none"
       /\ LET r == Assets(tile_prices, WindowArgs(w, tile_bounds), <<1>>)
          IN tile_objects' =
               [tile_objects EXCEPT ![w] = [outcome |-> r.outcome,
                                            prices |-> r.prices,
                                            returns |-> NoReturns]]
  /\ UNCHANGED <<tile_prices, tile_bounds>>
  /\ UNCHANGED <<domVars, popVars, assetsVars, mppVars, sweepVars, optVars,
                 preselVars, wfVars>>

\* assets.returns, read on one of the objects
ReadWindowReturns ==
  /\ \E w \in Windows :
       /\ tile_objects[w].outcome = "ok"
       /\ tile_objects' =
            [tile_objects EXCEPT ![w].returns =
               IF @.cached THEN @
               ELSE [cached |-> TRUE, value |-> pct_change(tile_objects[w].prices)]]
  /\ UNCHANGED <<tile_prices, tile_bounds>>
  /\ UNCHANGED <<domVars, popVars, assetsVars, mppVars, sweepVars, optVars,
                 preselVars, wfVars>>

NextTile ==
  \/ ConstructWindow
  \/ ReadWindowReturns

SpecTile == InitTile /\ [][NextTile]_vars

\* the returns of one object followed by those of another, asset by asset
followed_by(r1, r2) == [k \in DOMAIN r1 |-> r1[k] \o r2[k]]

\* the returns of the three objects have been read
AllRead == \A w \in Windows : tile_objects[w].returns.cached

\* b is a date of the table
BoundaryInTable == tile_bounds[2] \in Range(tile_prices.dates)

\* C21: for a price table without missing values and dates a < b < c where b
\* is a date of the table, each of the three objects is constructed without
\* error; date_nb of each object is its number of price dates minus one; and
\* the returns of Assets(a, b) followed by those of Assets(b, c) are, position
\* by position, the returns of Assets(a, c): none is duplicated, none is lost.
C21_AdjacentWindowsTile ==
  BoundaryInTable =>
    /\ \A w \in Windows :
         /\ tile_objects[w].outcome \in {"none", "ok"}
         /\ tile_objects[w].returns.cached =>
              date_nb(tile_objects[w].returns.value)
                = Len(tile_objects[w].prices.dates) - 1
    /\ AllRead =>
         followed_by(tile_objects["first"].returns.value,
                     tile_objects["second"].returns.value)
           = tile_objects["whole"].returns.value

\* The three returns are read, b is a date of the table while a and c are
\* not, and each of the two adjacent windows holds at least one return.
C21_Witness ==
  /\ AllRead
  /\ BoundaryInTable
  /\ tile_bounds[1] \notin Range(tile_prices.dates)
  /\ tile_bounds[3] \notin Range(tile_prices.dates)
  /\ date_nb(tile_objects["first"].returns.value) >= 1
  /\ date_nb(tile_objects["second"].returns.value) >= 1

====
